---------------------------- MODULE Spec2Model ----------------------------
(***************************************************************************)
(* Model of the generate-java-test skill:                                  *)
(*   src/skills/generate-java-test/validators.py     (the validator)       *)
(*   src/skills/generate-java-test/mplementation.py  (the generator)       *)
(*                                                                         *)
(* Texts are TLA+ strings, handled character by character with Len,        *)
(* SubSeq and \o.  Their alphabet is U+0000..U+00FF: Whitespace and        *)
(* WordChars are Python's classes on that range, the characters outside    *)
(* ASCII standing raw in the literals.  Two conventions of the encoding:   *)
(*  - a TLA+ string literal cannot hold the character U+0060 (the          *)
(*    markdown fence character); it is written "~" (Backtick), a character *)
(*    that is neither a word character nor whitespace and that no pattern  *)
(*    of the program mentions, exactly like U+0060 itself;                 *)
(*  - the program's messages are Chinese text; each is written here as an  *)
(*    ASCII rendering with the same interpolated values.                   *)
(* Python's None for target_class_name is written "": the only use of the  *)
(* parameter is its truth value and startswith, and None and "" are both   *)
(* false.                                                                  *)
(***************************************************************************)
EXTENDS Integers, Sequences, FiniteSets, TLC

VARIABLES raw_output, target_class_name, base, report,
          class_name, scratchpad, outcome

vars == <<raw_output, target_class_name, base, report,
          class_name, scratchpad, outcome>>

-----------------------------------------------------------------------------
(* Characters and the string primitives of Python and of its re module.    *)

Backtick == "~"

Fence == Backtick \o Backtick \o Backtick

NewlineFence == "\n" \o Fence

\* str.isspace and the class \s of a str pattern, on U+0000..U+00FF: the
\* ASCII whitespace, then U+000B, U+001C..U+001F, U+0085 and U+00A0
Whitespace ==
  {" ", "\t", "\n", "\r", "\f",
   "", "", "", "", "", "", " "}

\* the class \w of a str pattern (Unicode-aware), on U+0000..U+00FF:
\* [A-Za-z0-9_], then the letters and the numeric characters of Latin-1
WordChars ==
  {"a","b","c","d","e","f","g","h","i","j","k","l","m",
   "n","o","p","q","r","s","t","u","v","w","x","y","z",
   "A","B","C","D","E","F","G","H","I","J","K","L","M",
   "N","O","P","Q","R","S","T","U","V","W","X","Y","Z",
   "0","1","2","3","4","5","6","7","8","9","_",
   "ª","²","³","µ","¹","º","¼","½","¾","À","Á","Â","Ã",
   "Ä","Å","Æ","Ç","È","É","Ê","Ë","Ì","Í","Î","Ï","Ð",
   "Ñ","Ò","Ó","Ô","Õ","Ö","Ø","Ù","Ú","Û","Ü","Ý","Þ",
   "ß","à","á","â","ã","ä","å","æ","ç","è","é","ê","ë",
   "ì","í","î","ï","ð","ñ","ò","ó","ô","õ","ö","ø","ù",
   "ú","û","ü","ý","þ","ÿ"}

CharAt(s, i) == SubSeq(s, i, i)

IsSpaceAt(s, i) == i >= 1 /\ i <= Len(s) /\ CharAt(s, i) \in Whitespace

IsWordAt(s, i) == i >= 1 /\ i <= Len(s) /\ CharAt(s, i) \in WordChars

\* p occurs in s at position i (1-based)
MatchAt(s, i, p) ==
  /\ i >= 1
  /\ i + Len(p) - 1 <= Len(s)
  /\ SubSeq(s, i, i + Len(p) - 1) = p

\* s.startswith(p)
StartsWith(s, p) == MatchAt(s, 1, p)

\* s.endswith(p)
EndsWith(s, p) == Len(p) <= Len(s) /\ MatchAt(s, Len(s) - Len(p) + 1, p)

\* p in s
Contains(s, p) == \E i \in 1..(Len(s) - Len(p) + 1) : MatchAt(s, i, p)

\* s.find(p, from): the least position >= from where p occurs, 0 when none
Find(s, p, from) ==
  IF \E i \in from..Len(s) : MatchAt(s, i, p)
  THEN CHOOSE i \in from..Len(s) :
          MatchAt(s, i, p) /\ \A j \in from..(i - 1) : ~MatchAt(s, j, p)
  ELSE 0

\* the first position >= i that holds no whitespace (Len(s)+1 when none):
\* where a greedy \s* or \s+ starting at i stops
SkipSpace(s, i) ==
  CHOOSE j \in i..(Len(s) + 1) :
     ~IsSpaceAt(s, j) /\ \A k \in i..(j - 1) : IsSpaceAt(s, k)

\* the first position >= i that holds no word character: where \w+ stops
SkipWord(s, i) ==
  CHOOSE j \in i..(Len(s) + 1) :
     ~IsWordAt(s, j) /\ \A k \in i..(j - 1) : IsWordAt(s, k)

\* the last position that holds no whitespace (0 when none): Len(s) less
\* the length of the whitespace s ends with
LastNonSpace(s) ==
  LET n == CHOOSE d \in 0..Len(s) :
              ~IsSpaceAt(s, Len(s) - d)
              /\ \A k \in (Len(s) - d + 1)..Len(s) : IsSpaceAt(s, k)
  IN  Len(s) - n

\* s.strip()
Strip(s) ==
  LET first == SkipSpace(s, 1)
  IN  IF first > Len(s) THEN "" ELSE SubSeq(s, first, LastNonSpace(s))

\* \b at the left edge of position i, when position i holds a word character
WordStartAt(s, i) == IsWordAt(s, i) /\ ~IsWordAt(s, i - 1)

\* lines[0] of s.split('\n')
FirstLine(s) ==
  LET nl == Find(s, "\n", 1)
  IN  IF nl = 0 THEN s ELSE SubSeq(s, 1, nl - 1)

-----------------------------------------------------------------------------
(* JavaTestValidator                                                       *)

NoCodeMsg == "no valid java code block found"

\* __init__: the (pattern, message) pairs, in list order.  A pattern is
\* given by its literal alternatives and by whether it opens with \b.
dangerous_patterns ==
  << [wordStart |-> TRUE,
      literals  |-> {"Runtime.getRuntime()", "ProcessBuilder.getRuntime()"},
      msg       |-> "Runtime must not be used to run system commands"],
     [wordStart |-> TRUE,
      literals  |-> {"exec("},
      msg       |-> "calling exec() is forbidden"],
     [wordStart |-> FALSE,
      literals  |-> {"new ProcessBuilder"},
      msg       |-> "creating a process is forbidden"],
     [wordStart |-> FALSE,
      literals  |-> {"System.exit"},
      msg       |-> "calling System.exit() is forbidden"] >>

\* re.search(pattern, code) for a danger pattern
PatternMatches(pat, code) ==
  \E i \in 1..Len(code) : \E lit \in pat.literals :
     /\ MatchAt(code, i, lit)
     /\ pat.wordStart => WordStartAt(code, i)

\* (?:java)? under re.IGNORECASE, at position i
JavaTagAt(s, i) ==
  /\ i + 3 <= Len(s)
  /\ CharAt(s, i) \in {"j", "J"}
  /\ CharAt(s, i + 1) \in {"a", "A"}
  /\ CharAt(s, i + 2) \in {"v", "V"}
  /\ CharAt(s, i + 3) \in {"a", "A"}

\* the least position >= from where \n?``` matches, 0 when none: the first
\* fence at or after from, or the newline just before it when that newline
\* is not before from
FindClose(text, from) ==
  LET plain == Find(text, Fence, from)
  IN  IF plain > from /\ CharAt(text, plain - 1) = "\n" THEN plain - 1 ELSE plain

\* re.search(r"```(?:java)?\s*\n?(.*?)\n?```", text, DOTALL | IGNORECASE):
\* <<start, end>> of group 1 (end exclusive), or <<0, 0>> when no match.
\* The opening fence is the first fence of the text; the tag and the
\* whitespace after it are consumed greedily (no fence character is among
\* them, so backtracking never finds a match the greedy choice misses);
\* the lazy group stops at the first position where \n?``` matches.
CodeBlockMatch(text) ==
  LET open == Find(text, Fence, 1)
      tag  == IF JavaTagAt(text, open + 3) THEN open + 7 ELSE open + 3
      from == SkipSpace(text, tag)
      end  == FindClose(text, from)
  IN  IF open = 0 \/ end = 0 THEN <<0, 0>> ELSE <<from, end>>

_extract_java_code(text) ==
  LET m == CodeBlockMatch(text)
  IN  IF m # <<0, 0>>
      THEN Strip(SubSeq(text, m[1], m[2] - 1))
      ELSE IF \/ StartsWith(FirstLine(Strip(text)), "public class")
              \/ StartsWith(FirstLine(Strip(text)), "import")
           THEN Strip(text)
           ELSE ""

\* the messages of the patterns that match code, in list order
RECURSIVE SelectMsgs(_, _)
SelectMsgs(pats, code) ==
  IF pats = <<>> THEN <<>>
  ELSE (IF PatternMatches(Head(pats), code) THEN <<Head(pats).msg>> ELSE <<>>)
       \o SelectMsgs(Tail(pats), code)

\* _check_safety leaving its loop at the first pattern that matches
_check_safety_first_match(code) ==
  LET issues == SelectMsgs(dangerous_patterns, code)
  IN  [safe |-> Len(issues) = 0,
       issues |-> IF issues = <<>> THEN <<>> ELSE <<issues[1]>>]

_check_safety(code) ==
  LET issues == SelectMsgs(dangerous_patterns, code)
  IN  [safe |-> Len(issues) = 0, issues |-> issues]

MissingImportMsg == "missing JUnit 5 import (should include @Test)"

NoPublicClassMsg == "no public class definition found"

NamingMsg(test_class_name) ==
  "test class name '" \o test_class_name \o "' should end with 'Test'"

SuggestMsg(target) ==
  "consider naming the test class '" \o target \o "Test' to match the class under test"

NoTestMethodMsg == "no @Test annotated method found"

MainMethodMsg == "a test class should not contain a main method"

MockitoMsg == "Mockito usage detected but its import is missing"

\* has_junit_import looking for the annotation instead of its import
has_junit_annotation(code) == Contains(code, "@Test")

has_junit_import(code) ==
  \/ Contains(code, "import org.junit.jupiter.api.Test;")
  \/ Contains(code, "import static org.junit.jupiter.api.Assertions.*;")

\* re.search(r"public\s+class\s+(\w+)", code) matches at position i:
\* the position of group 1, or 0 when there is no match at i
ClassNameAt(code, i) ==
  IF MatchAt(code, i, "public") /\ IsSpaceAt(code, i + 6)
  THEN LET c == SkipSpace(code, i + 6)
       IN  IF MatchAt(code, c, "class") /\ IsSpaceAt(code, c + 5)
           THEN LET n == SkipSpace(code, c + 5)
                IN  IF IsWordAt(code, n) THEN n ELSE 0
           ELSE 0
  ELSE 0

\* the position of group 1 in the leftmost match, 0 when there is none
FirstClassName(code) ==
  IF \E i \in 1..Len(code) : ClassNameAt(code, i) # 0
  THEN ClassNameAt(code, CHOOSE i \in 1..Len(code) :
                            /\ ClassNameAt(code, i) # 0
                            /\ \A j \in 1..(i - 1) : ClassNameAt(code, j) = 0)
  ELSE 0

\* group(1) of the leftmost match, "" when the pattern matches nowhere
\* (a match always captures at least one character)
test_class_match(code) ==
  LET n == FirstClassName(code)
  IN  IF n = 0 THEN "" ELSE SubSeq(code, n, SkipWord(code, n) - 1)

\* len(re.findall(r"@Test\b", code))
test_methods(code) ==
  Cardinality({i \in 1..Len(code) :
                  MatchAt(code, i, "@Test") /\ ~IsWordAt(code, i + 5)})

uses_mockito(code) ==
  Contains(code, "mock(") \/ Contains(code, "when(") \/ Contains(code, "verify(")

\* _check_structure returning as soon as no public class is found
_check_structure_class_first(code, target) ==
  LET test_class_name == test_class_match(code)
      found == test_class_name # ""
  IN  [errors |->
          (IF ~has_junit_import(code) THEN <<MissingImportMsg>> ELSE <<>>)
          \o (IF ~found THEN <<NoPublicClassMsg>> ELSE <<>>)
          \o (IF found /\ test_methods(code) = 0 THEN <<NoTestMethodMsg>> ELSE <<>>),
       warnings |->
          (IF found /\ ~EndsWith(test_class_name, "Test")
           THEN <<NamingMsg(test_class_name)>> ELSE <<>>)
          \o (IF found /\ Contains(code, "public static void main")
              THEN <<MainMethodMsg>> ELSE <<>>)
          \o (IF found /\ uses_mockito(code) /\ ~Contains(code, "import org.mockito")
              THEN <<MockitoMsg>> ELSE <<>>),
       suggestions |->
          IF found /\ target # "" /\ ~StartsWith(test_class_name, target)
          THEN <<SuggestMsg(target)>> ELSE <<>>]

_check_structure(code, target) ==
  LET test_class_name == test_class_match(code)
      found == test_class_name # ""
  IN  [errors |->
          (IF ~has_junit_import(code) THEN <<MissingImportMsg>> ELSE <<>>)
          \o (IF ~found THEN <<NoPublicClassMsg>> ELSE <<>>)
          \o (IF test_methods(code) = 0 THEN <<NoTestMethodMsg>> ELSE <<>>),
       warnings |->
          (IF found /\ ~EndsWith(test_class_name, "Test")
           THEN <<NamingMsg(test_class_name)>> ELSE <<>>)
          \o (IF Contains(code, "public static void main")
              THEN <<MainMethodMsg>> ELSE <<>>)
          \o (IF uses_mockito(code) /\ ~Contains(code, "import org.mockito")
              THEN <<MockitoMsg>> ELSE <<>>),
       suggestions |->
          IF found /\ target # "" /\ ~StartsWith(test_class_name, target)
          THEN <<SuggestMsg(target)>> ELSE <<>>]

\* validate without the return after the safety stage: the structure stage
\* runs on unsafe code too
validate_no_safety_return(raw, target) ==
  LET code == _extract_java_code(raw)
      safety == _check_safety(code)
      struct_issues == _check_structure(code, target)
      errors == safety.issues \o struct_issues.errors
  IN  IF code = ""
      THEN [valid |-> FALSE, clean_code |-> "", errors |-> <<NoCodeMsg>>,
            warnings |-> <<>>, suggestions |-> <<>>]
      ELSE [valid |-> Len(errors) = 0,
            clean_code |-> code,
            errors |-> errors,
            warnings |-> struct_issues.warnings,
            suggestions |-> struct_issues.suggestions]

\* validate without the return after the extraction stage: the later stages
\* run on the empty code
validate_no_extract_return(raw, target) ==
  LET code == _extract_java_code(raw)
      safety == _check_safety(code)
      struct_issues == _check_structure(code, target)
      errors == (IF code = "" THEN <<NoCodeMsg>> ELSE <<>>) \o struct_issues.errors
  IN  IF ~safety.safe
      THEN [valid |-> FALSE, clean_code |-> code, errors |-> safety.issues,
            warnings |-> <<>>, suggestions |-> <<>>]
      ELSE [valid |-> Len(errors) = 0,
            clean_code |-> code,
            errors |-> errors,
            warnings |-> struct_issues.warnings,
            suggestions |-> struct_issues.suggestions]

validate(raw, target) ==
  LET code == _extract_java_code(raw)
      safety == _check_safety(code)
      struct_issues == _check_structure(code, target)
  IN  IF code = ""
      THEN [valid |-> FALSE, clean_code |-> "", errors |-> <<NoCodeMsg>>,
            warnings |-> <<>>, suggestions |-> <<>>]
      ELSE IF ~safety.safe
      THEN [valid |-> FALSE, clean_code |-> code, errors |-> safety.issues,
            warnings |-> <<>>, suggestions |-> <<>>]
      ELSE [valid |-> Len(struct_issues.errors) = 0,
            clean_code |-> code,
            errors |-> struct_issues.errors,
            warnings |-> struct_issues.warnings,
            suggestions |-> struct_issues.suggestions]

\* validate_java_test folding the warnings without resetting valid
validate_java_test_valid_kept(raw, target, strict) ==
  LET result == validate(raw, target)
  IN  IF strict /\ result.warnings # <<>>
      THEN [result EXCEPT !.errors = result.errors \o result.warnings]
      ELSE result

\* validate_java_test ignoring its strict parameter
validate_java_test_always_strict(raw, target, strict) ==
  LET result == validate(raw, target)
  IN  IF result.warnings # <<>>
      THEN [result EXCEPT !.errors = result.errors \o result.warnings,
                          !.valid = FALSE]
      ELSE result

\* validate_java_test moving the warnings into the errors
validate_java_test_moving(raw, target, strict) ==
  LET result == validate(raw, target)
  IN  IF strict /\ result.warnings # <<>>
      THEN [result EXCEPT !.errors = result.errors \o result.warnings,
                          !.warnings = <<>>,
                          !.valid = FALSE]
      ELSE result

\* the strict-mode step of validate_java_test, on the report validate returned
strict_mode(result, strict) ==
  IF strict /\ result.warnings # <<>>
  THEN [result EXCEPT !.errors = result.errors \o result.warnings,
                      !.valid = FALSE]
  ELSE result

validate_java_test(raw, target, strict) ==
  strict_mode(validate(raw, target), strict)

-----------------------------------------------------------------------------
(* The inputs: raw model outputs assembled from lines of Java and markdown. *)
(* They are ASCII texts: TLC's state queue does not preserve the           *)
(* characters above U+007F of a string held in a state.  Line 5 separates  *)
(* its words by U+000B and U+001C, whitespace for Python.                  *)

MaxParts == 3

Lines ==
  << "import org.junit.jupiter.api.Test;\n",
     "import static org.junit.jupiter.api.Assertions.*;\n",
     "import org.mockito.Mockito;\n",
     "public class FooTest {\n",
     "publicclassCalc { void run(){} }",
     "  @Test\n  void t() {}\n}",
     "  @TestFactory\n  void f() { verify(m); }\n",
     "Runtime.getRuntime().exec(\"rm -rf /\")",
     "  new ProcessBuilder(\"ls\").start();\n",
     "  System.exit(0);\n",
     "  public static void main(String[] a) {}\n",
     "  p.exec(1); myexec(2);\n" >>

\* the lines picked by the index set S, joined in the order of Lines
RECURSIVE Join(_, _)
Join(S, i) ==
  IF i > Len(Lines) THEN ""
  ELSE (IF i \in S THEN Lines[i] ELSE "") \o Join(S, i + 1)

Bodies ==
  {Join(S, 1) : S \in {T \in SUBSET (1..Len(Lines)) : Cardinality(T) <= MaxParts}}

\* what surrounds the lines: a tagged block after prose; an untagged block
\* followed by prose and by a second block; a block with an upper-case tag
\* on the line of the code; no block, with blank space (U+001F and U+000B
\* too) around the lines
Wrappers ==
  { [open |-> "Here is the test:\n" \o Fence \o "java\n", close |-> NewlineFence],
    [open |-> Fence \o "\n",
     close |-> Fence \o "\nDone.\n" \o Fence \o "java\nSystem.exit(1);\n" \o Fence],
    [open |-> Fence \o "JAVA  ", close |-> Fence],
    [open |-> " \n", close |-> "\n "] }

\* openings after which no code is found: a refusal, and a fence never closed
Refusals == {"Sorry, I cannot help with that", Fence \o "Java\n"}

RawOutputs ==
  {w.open \o b \o w.close : w \in Wrappers, b \in Bodies}
  \cup {r \o b : r \in Refusals, b \in {""} \cup {Lines[i] : i \in DOMAIN Lines}}

TargetNames == {"", "Foo"}

NoScratch == [k \in {"project_dependencies", "last_generated_test"} |-> <<>>]

-----------------------------------------------------------------------------
(* The validator's entry points, called on one raw output.                 *)

Init ==
  /\ raw_output \in RawOutputs
  /\ target_class_name \in TargetNames
  /\ base = <<>>
  /\ report = [s \in BOOLEAN |-> <<>>]
  /\ class_name = "Foo"
  /\ scratchpad = NoScratch
  /\ outcome = <<>>

\* JavaTestValidator().validate(raw_output, target_class_name), called
\* directly; base is the report validate returns for raw_output, here or
\* inside validate_java_test
Validate ==
  /\ base = <<>>
  /\ base' = <<validate(raw_output, target_class_name)>>
  /\ UNCHANGED <<raw_output, target_class_name, report,
                 class_name, scratchpad, outcome>>

\* validate_java_test(raw_output, target_class_name, strict): its call of
\* validate, then the strict-mode escalation of what that call returned
ValidateJavaTest(strict) ==
  /\ report[strict] = <<>>
  /\ base' = <<validate(raw_output, target_class_name)>>
  /\ report' = [report EXCEPT
                  ![strict] = <<validate_java_test(raw_output, target_class_name, strict)>>]
  /\ UNCHANGED <<raw_output, target_class_name, class_name, scratchpad, outcome>>

Next ==
  \/ Validate
  \/ \E strict \in BOOLEAN : ValidateJavaTest(strict)

Spec == Init /\ [][Next]_vars

-----------------------------------------------------------------------------
(* generate_java_test.  Rendering the prompt and calling the LLM belong to *)
(* external collaborators: each either answers or raises its own error,    *)
(* which the generator does not catch.  raw_output is the text the LLM     *)
(* gives when it answers.                                                  *)

ClassNames == {"Foo", "Calc"}

dependencies == <<"org.mockito:mockito-core", "org.junit.jupiter:junit-jupiter">>

PreviousTest ==
  [class_name |-> "Old", test_code |-> "public class OldTest {}",
   file_path |-> "src/test/java/OldTest.java"]

Scratchpads ==
  { NoScratch,
    [NoScratch EXCEPT !["project_dependencies"] = <<<<"junit:junit">>>>],
    [NoScratch EXCEPT !["last_generated_test"] = <<PreviousTest>>] }

Raised(exc, msg) ==
  [kind |-> "raise", exc |-> exc, msg |-> msg,
   test_class |-> "", file_path |-> "", dependencies |-> <<>>]

Returned(test_class, file_path, deps) ==
  [kind |-> "return", exc |-> "", msg |-> "",
   test_class |-> test_class, file_path |-> file_path, dependencies |-> deps]

\* generate_java_test recording the test before it checks the report
generate_java_test_record_first(pad, cls, raw, template_ok, llm_ok) ==
  LET validation == validate_java_test(raw, "", TRUE)
      test_file_path == "src/test/java/" \o cls \o "Test.java"
      written == [pad EXCEPT !["last_generated_test"] =
                    <<[class_name |-> cls,
                       test_code  |-> validation.clean_code,
                       file_path  |-> test_file_path]>>]
  IN  IF ~template_ok
      THEN [outcome |-> Raised("ExternalError", "prompt_template.j2"), scratchpad |-> pad]
      ELSE IF ~llm_ok
      THEN [outcome |-> Raised("ExternalError", "call_llm"), scratchpad |-> pad]
      ELSE IF ~validation.valid
      THEN [outcome |-> Raised("KeyError", "'issues'"), scratchpad |-> written]
      ELSE [outcome |-> Returned(validation.clean_code, test_file_path, dependencies),
            scratchpad |-> written]

\* generate_java_test from the check of the report on
after_validation(pad, cls, validation) ==
  LET test_file_path == "src/test/java/" \o cls \o "Test.java"
  IN  IF ~validation.valid
      \* validation['issues']: the report has no such key, so the subscript
      \* raises KeyError before the ValueError is built
      THEN [outcome |-> Raised("KeyError", "'issues'"), scratchpad |-> pad]
      ELSE [outcome |-> Returned(validation.clean_code, test_file_path, dependencies),
            scratchpad |->
              [pad EXCEPT !["last_generated_test"] =
                 <<[class_name |-> cls,
                    test_code  |-> validation.clean_code,
                    file_path  |-> test_file_path]>>]]

\* the exception and the scratchpad generate_java_test(state, cls, ...) ends
\* with, as [outcome, scratchpad]; template_ok and llm_ok say whether the
\* template file renders and whether call_llm answers
generate_java_test(pad, cls, raw, template_ok, llm_ok) ==
  IF ~template_ok
  THEN [outcome |-> Raised("ExternalError", "prompt_template.j2"), scratchpad |-> pad]
  ELSE IF ~llm_ok
  THEN [outcome |-> Raised("ExternalError", "call_llm"), scratchpad |-> pad]
  ELSE after_validation(pad, cls, validate_java_test(raw, "", TRUE))

GenInit ==
  /\ raw_output \in RawOutputs
  /\ target_class_name = ""
  /\ base = <<>>
  /\ report = [s \in BOOLEAN |-> <<>>]
  /\ class_name \in ClassNames
  /\ scratchpad \in Scratchpads
  /\ outcome = <<>>

GenerateJavaTest(template_ok, llm_ok) ==
  /\ outcome = <<>>
  /\ outcome' =
       <<generate_java_test(scratchpad, class_name, raw_output, template_ok, llm_ok).outcome>>
  /\ scratchpad' =
       generate_java_test(scratchpad, class_name, raw_output, template_ok, llm_ok).scratchpad
  /\ UNCHANGED <<raw_output, target_class_name, base, report, class_name>>

GenNext == \E template_ok, llm_ok \in BOOLEAN : GenerateJavaTest(template_ok, llm_ok)

GenSpec == GenInit /\ [][GenNext]_vars

-----------------------------------------------------------------------------
(* Properties.                                                             *)

Range(seq) == {seq[i] : i \in DOMAIN seq}

\* the reports returned so far, by either entry point
RecordedReports ==
  Range(base) \cup Range(report[TRUE]) \cup Range(report[FALSE])

\* xs lists some of the entries of ys (whose entries are distinct), each once,
\* in the order of ys
InOrderOf(xs, ys) ==
  /\ \A i \in DOMAIN xs : xs[i] \in Range(ys)
  /\ \A i, j \in DOMAIN xs :
        i < j => (CHOOSE k \in DOMAIN ys : ys[k] = xs[i])
                   < (CHOOSE k \in DOMAIN ys : ys[k] = xs[j])

\* sep.join(seq)
RECURSIVE JoinWith(_, _)
JoinWith(seq, sep) ==
  IF seq = <<>> THEN ""
  ELSE IF Len(seq) = 1 THEN seq[1]
  ELSE seq[1] \o sep \o JoinWith(Tail(seq), sep)

DangerMsgs == [k \in DOMAIN dangerous_patterns |-> dangerous_patterns[k].msg]

NoCodeReport ==
  [valid |-> FALSE, clean_code |-> "", errors |-> <<NoCodeMsg>>,
   warnings |-> <<>>, suggestions |-> <<>>]

\* C1: when the report generate_java_test obtains for the raw output is
\* invalid, the call fails with the validation error (the ValueError of the
\* source) whose message carries the joined issue list, and with no other
\* error.
InvalidReportRaisesValidationError ==
  LET validation == validate_java_test(raw_output, "", TRUE)
  IN  (outcome # <<>> /\ outcome[1].exc # "ExternalError" /\ ~validation.valid)
      => /\ outcome[1].kind = "raise"
         /\ outcome[1].exc = "ValueError"
         /\ outcome[1].msg = "test generation failed: " \o JoinWith(validation.errors, ", ")

\* C2: when the extracted code is not empty and matches a danger pattern,
\* validate returns valid=false with exactly the reasons of the matching
\* patterns as errors, in pattern-list order, and with no warning and no
\* suggestion: the structure stage has not run.
UnsafeCodeShortCircuits ==
  LET code == _extract_java_code(raw_output)
  IN  (/\ base # <<>>
       /\ code # ""
       /\ \E k \in DOMAIN dangerous_patterns : PatternMatches(dangerous_patterns[k], code))
      => /\ ~base[1].valid
         /\ \A k \in DOMAIN dangerous_patterns :
               DangerMsgs[k] \in Range(base[1].errors)
                  <=> PatternMatches(dangerous_patterns[k], code)
         /\ InOrderOf(base[1].errors, DangerMsgs)
         /\ base[1].warnings = <<>>
         /\ base[1].suggestions = <<>>

\* C2 witness: validate has returned the four reasons, on code that holds
\* every danger marker
AllFourReasonsReported ==
  /\ base # <<>>
  /\ base[1].errors = DangerMsgs
  /\ Len(DangerMsgs) = 4

\* C3: every report returned by validate or by validate_java_test (strict on
\* or off) has valid = true exactly when its errors are empty.
ValidIffNoErrors ==
  \A r \in RecordedReports : r.valid <=> (r.errors = <<>>)

\* C3 witness: a base report that is valid, and the strict report of the same
\* input, escalated to invalid
ValidBaseEscalated ==
  /\ base # <<>> /\ base[1].valid /\ base[1].errors = <<>>
  /\ report[TRUE] # <<>> /\ ~report[TRUE][1].valid /\ report[TRUE][1].errors # <<>>
  /\ report[FALSE] # <<>> /\ report[FALSE][1].valid

\* C4: with strict on, valid is never true when the base pipeline produced a
\* warning, and valid with strict on implies valid with strict off; with
\* strict off, valid is the base pipeline's valid and is true exactly when
\* the base error list is empty.
StrictModeMonotone ==
  /\ (base # <<>> /\ report[TRUE] # <<>> /\ base[1].warnings # <<>>)
        => ~report[TRUE][1].valid
  /\ (report[TRUE] # <<>> /\ report[FALSE] # <<>> /\ report[TRUE][1].valid)
        => report[FALSE][1].valid
  /\ (base # <<>> /\ report[FALSE] # <<>>)
        => /\ report[FALSE][1].valid = base[1].valid
           /\ report[FALSE][1].valid <=> (base[1].errors = <<>>)

\* C4 witness: one input with warnings and no error, rejected with strict on
\* and accepted with strict off
WarningsOnlyBothModes ==
  /\ base # <<>> /\ base[1].errors = <<>> /\ Len(base[1].warnings) >= 1
  /\ report[TRUE] # <<>> /\ ~report[TRUE][1].valid
  /\ report[FALSE] # <<>> /\ report[FALSE][1].valid
  /\ report[FALSE][1].warnings = base[1].warnings

\* the inputs of Scenario 1: prose, then a java-tagged fenced block holding a
\* public class named ...Test with one @Test method, no danger marker, no
\* main method, no mocking call and no import line
Scenario1Input ==
  LET code == _extract_java_code(raw_output)
  IN  /\ StartsWith(raw_output, "Here is the test:\n" \o Fence \o "java\n")
      /\ CodeBlockMatch(raw_output) # <<0, 0>>
      /\ EndsWith(test_class_match(code), "Test")
      /\ test_methods(code) = 1
      /\ \A k \in DOMAIN dangerous_patterns : ~PatternMatches(dangerous_patterns[k], code)
      /\ ~Contains(code, "public static void main")
      /\ ~uses_mockito(code)
      /\ ~Contains(code, "import")

\* C5 as stated: on the inputs of Scenario 1 the orchestrator's report is
\* valid=true with no error and no warning.
Scenario1ReportValid ==
  (base # <<>> /\ Scenario1Input)
  => /\ base[1].valid
     /\ base[1].errors = <<>>
     /\ base[1].warnings = <<>>

\* C5 amended: on the inputs of Scenario 1 the orchestrator's report is
\* valid=false, its errors are exactly the missing-framework-import error,
\* and it has no warning.
Scenario1ReportMissingImport ==
  (base # <<>> /\ Scenario1Input)
  => /\ ~base[1].valid
     /\ base[1].errors = <<MissingImportMsg>>
     /\ base[1].warnings = <<>>

\* C5 witness: validate has returned for the text of Scenario 1
Scenario1Validated ==
  /\ base # <<>>
  /\ Scenario1Input
  /\ raw_output = "Here is the test:\n" \o Fence
                    \o "java\npublic class FooTest {\n  @Test\n  void t() {}\n}\n" \o Fence

RuntimeExecCall == "Runtime.getRuntime().exec(\"rm -rf /\")"

\* the inputs of Scenario 2: a fenced block holding the Runtime exec call and
\* no other danger marker text
Scenario2Input ==
  LET code == _extract_java_code(raw_output)
  IN  /\ CodeBlockMatch(raw_output) # <<0, 0>>
      /\ Contains(code, RuntimeExecCall)
      /\ Cardinality({i \in 1..Len(code) : MatchAt(code, i, "exec(")}) = 1
      /\ Cardinality({i \in 1..Len(code) : MatchAt(code, i, "getRuntime()")}) = 1
      /\ ~Contains(code, "ProcessBuilder")
      /\ ~Contains(code, "System.exit")

\* C6 as stated: on the inputs of Scenario 2 the report is valid=false and
\* its errors are exactly one reason, the one about Runtime.
Scenario2OneReason ==
  (base # <<>> /\ Scenario2Input)
  => /\ ~base[1].valid
     /\ base[1].errors = <<DangerMsgs[1]>>

\* C6 amended: on the inputs of Scenario 2 the report is valid=false and its
\* errors are exactly two reasons, the one about Runtime followed by the one
\* about exec(), which the same call text also matches.
Scenario2TwoReasons ==
  (base # <<>> /\ Scenario2Input)
  => /\ ~base[1].valid
     /\ base[1].errors = <<DangerMsgs[1], DangerMsgs[2]>>

\* C6 witness: validate has returned for a fenced block that holds only the
\* call of Scenario 2
Scenario2Validated ==
  /\ base # <<>>
  /\ Scenario2Input
  /\ base[1].clean_code = RuntimeExecCall

\* the two cases in which the claim says the extractor yields nothing
NoCodeCase(text) ==
  LET m == CodeBlockMatch(text)
      first == FirstLine(Strip(text))
  IN  \/ /\ m = <<0, 0>>
         /\ ~StartsWith(first, "public class")
         /\ ~StartsWith(first, "import")
      \/ /\ m # <<0, 0>>
         /\ Strip(SubSeq(text, m[1], m[2] - 1)) = ""

\* C7: the extractor yields an empty result exactly in the two cases named,
\* and then the report of validate and those of validate_java_test, with
\* strict on and off, are all valid=false with the one 'no code block found'
\* error, an empty clean_code, no warning and no suggestion.
NoCodeReportedOnce ==
  LET code == _extract_java_code(raw_output)
  IN  (base # <<>> /\ report[TRUE] # <<>> /\ report[FALSE] # <<>>)
      => /\ (code = "") <=> NoCodeCase(raw_output)
         /\ (code = "") => \A r \in RecordedReports : r = NoCodeReport

\* C7 witness: all three calls have returned for the text of Scenario 4
Scenario4Validated ==
  /\ raw_output = "Sorry, I cannot help with that"
  /\ base = <<NoCodeReport>>
  /\ report[TRUE] = <<NoCodeReport>>
  /\ report[FALSE] = <<NoCodeReport>>

\* C8: for safe, non-empty code the structure checker reports, in this
\* order, exactly the errors among {missing import, missing public class, no
\* @Test} and the warnings among {name without 'Test' suffix, main method,
\* mocking call without import} whose conditions hold; without a public class
\* only the naming warning and the target-name suggestion are skipped; the
\* code of Scenario 3 yields the two errors and the naming warning.
StructureChecksAllRun ==
  LET code == _extract_java_code(raw_output)
      name == test_class_match(code)
      r    == base[1]
  IN  (base # <<>> /\ code # "" /\ _check_safety(code).safe)
      => /\ InOrderOf(r.errors, <<MissingImportMsg, NoPublicClassMsg, NoTestMethodMsg>>)
         /\ MissingImportMsg \in Range(r.errors) <=> ~has_junit_import(code)
         /\ NoPublicClassMsg \in Range(r.errors) <=> (name = "")
         /\ NoTestMethodMsg \in Range(r.errors) <=> (test_methods(code) = 0)
         /\ InOrderOf(r.warnings, <<NamingMsg(name), MainMethodMsg, MockitoMsg>>)
         /\ NamingMsg(name) \in Range(r.warnings)
               <=> (name # "" /\ ~EndsWith(name, "Test"))
         /\ MainMethodMsg \in Range(r.warnings)
               <=> Contains(code, "public static void main")
         /\ MockitoMsg \in Range(r.warnings)
               <=> (uses_mockito(code) /\ ~Contains(code, "import org.mockito"))
         /\ (name = "") => r.suggestions = <<>>
         /\ (code = Lines[5])
               => /\ r.errors = <<MissingImportMsg, NoTestMethodMsg>>
                  /\ r.warnings = <<NamingMsg("Calc")>>

\* C8 witness: validate has returned for code with no public class, no @Test
\* method, a main method and an unimported mocking call: the later checks ran
\* after the missing-class error
ChecksRanWithoutClass ==
  /\ base # <<>>
  /\ base[1].errors = <<MissingImportMsg, NoPublicClassMsg, NoTestMethodMsg>>
  /\ base[1].warnings = <<MainMethodMsg, MockitoMsg>>

\* C9, one call of generate_java_test: an outcome that is an error leaves the
\* scratchpad as it was; a returned result comes with a valid report, with
\* the one slot 'last_generated_test' set to the class name, the report's
\* clean_code and the path src/test/java/<TargetName>Test.java, every other
\* slot as it was, and carries that code, that path and the two dependencies.
GenerateStep ==
  LET validation == validate_java_test(raw_output, "", TRUE)
      path == "src/test/java/" \o class_name \o "Test.java"
  IN  (outcome = <<>> /\ outcome' # <<>>)
      => /\ (outcome'[1].kind = "raise") => (scratchpad' = scratchpad)
         /\ ~validation.valid => (outcome'[1].kind = "raise")
         /\ (outcome'[1].kind = "return")
               => /\ validation.valid
                  /\ scratchpad' =
                       [scratchpad EXCEPT !["last_generated_test"] =
                          <<[class_name |-> class_name,
                             test_code  |-> validation.clean_code,
                             file_path  |-> path]>>]
                  /\ outcome'[1].test_class = validation.clean_code
                  /\ outcome'[1].file_path = path
                  /\ outcome'[1].dependencies =
                       <<"org.mockito:mockito-core", "org.junit.jupiter:junit-jupiter">>

\* C9: generate_java_test changes the scratchpad only on success, and then it
\* writes exactly the slot 'last_generated_test'.
ScratchpadWrittenOnlyOnSuccess == [][GenerateStep]_vars

\* C9 witness: a successful generation has recorded its test and has kept
\* the slot of the project dependencies
GeneratedTestRecorded ==
  /\ outcome # <<>>
  /\ scratchpad["project_dependencies"] # <<>>
  /\ outcome[1].kind = "return"
  /\ scratchpad["last_generated_test"] # <<>>
  /\ scratchpad["last_generated_test"][1].class_name = class_name
  /\ scratchpad["last_generated_test"][1].test_code = outcome[1].test_class
  /\ outcome[1].test_class # ""

\* C10: with strict on and base warnings, the errors returned are the base
\* errors followed by the base warnings, and clean_code, warnings and
\* suggestions are those of the base report; with strict off, or with no base
\* warning, the report returned is the base report.
StrictChangesOnlyErrorsAndValid ==
  \A strict \in BOOLEAN :
     (base # <<>> /\ report[strict] # <<>>)
     => IF strict /\ base[1].warnings # <<>>
        THEN /\ report[strict][1].errors = base[1].errors \o base[1].warnings
             /\ report[strict][1].clean_code = base[1].clean_code
             /\ report[strict][1].warnings = base[1].warnings
             /\ report[strict][1].suggestions = base[1].suggestions
        ELSE report[strict][1] = base[1]

\* C10 witness: a strict report whose errors are a base error followed by two
\* base warnings, with the code and a suggestion kept
WarningsFoldedAfterErrors ==
  /\ base # <<>> /\ report[TRUE] # <<>>
  /\ Len(base[1].errors) >= 1 /\ Len(base[1].warnings) >= 2
  /\ base[1].suggestions # <<>>
  /\ report[TRUE][1].clean_code # ""
  /\ report[TRUE][1].suggestions = base[1].suggestions
  /\ Len(report[TRUE][1].errors) = Len(base[1].errors) + Len(base[1].warnings)

=============================================================================
